---- MODULE Spec2Model ----
(***************************************************************************)
(* A model of src/main.rs: the FileParser state machine, the BlockHandler  *)
(* capability with its PrintHandler implementation, and the line loop of   *)
(* FileProcessor::process_file.                                            *)
(*                                                                         *)
(* Text is a sequence of one-character strings, so that trimming, the      *)
(* newline separator and the banners are computed as the code computes     *)
(* them.                                                                   *)
(***************************************************************************)
EXTENDS Naturals, Sequences, FiniteSets

\* ---------------------------------------------------------------- bounds

\* Longest file process_file reads in Spec.
MaxLines == 5

\* Longest file process_file reads in SpecFair.
MaxFairLines == 3

\* Most calls of process_line on one parser in SpecParser.
MaxCalls == 3

\* Most calls of finish on one parser in SpecParser.
MaxFinish == 2

\* Most calls of PrintHandler::handle in SpecPrint.
MaxPrints == 2

\* ------------------------------------------------------------------ text

NL == "\n"

\* The characters str::trim removes (White_Space), as far as the model's
\* alphabet has them.
Whitespace == {" ", "\t"}

RECURSIVE trim_start(_)
trim_start(s) ==
    IF s # <<>> /\ Head(s) \in Whitespace THEN trim_start(Tail(s)) ELSE s

RECURSIVE trim_end(_)
trim_end(s) ==
    IF s # <<>> /\ s[Len(s)] \in Whitespace
    THEN trim_end(SubSeq(s, 1, Len(s) - 1))
    ELSE s

\* trim_start in place of trim.
trim_StartOnly(s) == trim_start(s)

\* str::trim, as used on every line before it is compared with a sentinel.
trim(s) == trim_end(trim_start(s))

\* println!: the text followed by a newline.
println(s) == s \o <<NL>>

\* The sentinels a caller passes, and the lines a file holds.  BufRead::lines
\* strips the line ending, so no line contains NL.
P == <<"P">>
Q == <<"Q">>

Lines ==
    { <<>>, <<"a">>, P, Q, <<" ", "P", " ">>, <<"P", "a">> }

SentinelPairs == { <<P, Q>>, <<P, P>> }

\* --------------------------------------------------------------- handlers

PRE_BLOCK == <<"P", "R", "E", "-", "B", "L", "O", "C", "K">>
CENTRAL_BLOCK ==
    <<"C", "E", "N", "T", "R", "A", "L", "-", "B", "L", "O", "C", "K">>
POST_BLOCK == <<"P", "O", "S", "T", "-", "B", "L", "O", "C", "K">>

\* "=== Start: {} ==="
StartBanner(label) ==
    <<"=", "=", "=", " ", "S", "t", "a", "r", "t", ":", " ">>
        \o label \o <<" ", "=", "=", "=">>

\* "===  End: {}  ==="
EndBanner(label) ==
    <<"=", "=", "=", " ", " ", "E", "n", "d", ":", " ">>
        \o label \o <<" ", " ", "=", "=", "=">>

\* PrintHandler::new
PrintHandler(label) == [kind |-> "PrintHandler", label |-> label]

\* Some other implementation of the BlockHandler trait: handle returns a
\* Result, so an implementation may return Err.  It writes nothing.
FallibleHandler == [kind |-> "FallibleHandler", label |-> <<>>]

\* Option::None in the central_handler and post_handler fields.
None == [kind |-> "None", label |-> <<>>]

\* PrintHandler::handle with a blank check in place of the zero-length check.
PrintHandler_handle_BlankCheck(label, content) ==
    IF trim(content) # <<>>
    THEN println(StartBanner(label)) \o println(content)
             \o println(EndBanner(label))
    ELSE <<>>

\* <PrintHandler as BlockHandler>::handle: what it writes to standard output.
PrintHandler_handle(label, content) ==
    IF content # <<>>
    THEN println(StartBanner(label)) \o println(content)
             \o println(EndBanner(label))
    ELSE <<>>

\* BlockHandler::handle on a handler of either kind.  fail is the outcome a
\* fallible implementation chooses; PrintHandler always returns Ok(()).
handle(handler, content, fail) ==
    IF handler.kind = "PrintHandler"
    THEN [ret |-> "Ok", out |-> PrintHandler_handle(handler.label, content)]
    ELSE [ret |-> IF fail THEN "Err" ELSE "Ok", out |-> <<>>]

\* FileProcessor::new
FileProcessor_new ==
    [pre_handler     |-> PrintHandler(PRE_BLOCK),
     central_handler |-> PrintHandler(CENTRAL_BLOCK),
     post_handler    |-> PrintHandler(POST_BLOCK)]

\* The FileProcessor values of the model: the production one, one without a
\* central handler, one without a post handler, and one whose handlers are
\* implementations that may fail.
Processors ==
    { FileProcessor_new,
      [FileProcessor_new EXCEPT !.central_handler = None],
      [FileProcessor_new EXCEPT !.post_handler = None],
      [pre_handler     |-> FallibleHandler,
       central_handler |-> FallibleHandler,
       post_handler    |-> FallibleHandler] }

\* ----------------------------------------------------------------- parser

ParserState == {"PreBlock", "CentralBlock", "PostBlock", "Finished"}

\* FileParser::new
FileParser_new(pre_sentinel, post_sentinel) ==
    [state         |-> "PreBlock",
     block_content |-> <<>>,
     pre_sentinel  |-> pre_sentinel,
     post_sentinel |-> post_sentinel]

\* One handler call: its result, what it printed, and its record.
Invoke(slot, handler, content, fail) ==
    LET r == handle(handler, content, fail)
    IN  [ret   |-> r.ret,
         out   |-> r.out,
         calls |-> <<[slot |-> slot, content |-> content, ret |-> r.ret]>>]

\* `if let Some(ref handler) = ... { handler.handle(..)?; }`
InvokeOpt(slot, handler, content, fail) ==
    IF handler.kind = "None"
    THEN [ret |-> "Ok", out |-> <<>>, calls |-> <<>>]
    ELSE Invoke(slot, handler, content, fail)

\* FlushThen with the buffer cleared and the state advanced before the
\* handler's result is looked at.
FlushThen_ClearsFirst(self, r, next) ==
    [self  |-> [self EXCEPT !.block_content = <<>>, !.state = next],
     ret   |-> r.ret,
     out   |-> r.out,
     calls |-> r.calls]

\* FlushThen without `self.block_content.clear()`.
FlushThen_KeepsBuffer(self, r, next) ==
    [self  |-> IF r.ret = "Err" THEN self ELSE [self EXCEPT !.state = next],
     ret   |-> r.ret,
     out   |-> r.out,
     calls |-> r.calls]

\* `handler.handle(&self.block_content)?; self.block_content.clear();
\*  self.state = next;`: the `?` returns before the buffer and the state are
\* touched.
FlushThen(self, r, next) ==
    [self  |-> IF r.ret = "Err"
               THEN self
               ELSE [self EXCEPT !.block_content = <<>>, !.state = next],
     ret   |-> r.ret,
     out   |-> r.out,
     calls |-> r.calls]

\* `if !self.block_content.is_empty() { push('\n') } push_str(line)`
push_line(block_content, line) ==
    (IF block_content # <<>> THEN block_content \o <<NL>> ELSE block_content)
        \o line

AppendLine(self, line) ==
    [self  |-> [self EXCEPT !.block_content = push_line(@, line)],
     ret   |-> "Ok",
     out   |-> <<>>,
     calls |-> <<>>]

\* process_line, the PreBlock arm with the pre- and post-sentinel swapped in
\* their targets: the post-sentinel enters CentralBlock.
PreBlock_arm_PostEntersCentral(self, line, processor, fail) ==
    IF trim(line) = self.pre_sentinel \/ trim(line) = self.post_sentinel
    THEN FlushThen(self,
             Invoke("pre", processor.pre_handler, self.block_content, fail),
             "CentralBlock")
    ELSE AppendLine(self, line)

\* process_line, the PreBlock arm appending the sentinel line before the
\* flush.
PreBlock_arm_SentinelInBlock(self, line, processor, fail) ==
    LET pushed == AppendLine(self, line).self
    IN  IF trim(line) = self.pre_sentinel
        THEN FlushThen(pushed,
                 Invoke("pre", processor.pre_handler,
                        pushed.block_content, fail),
                 "CentralBlock")
        ELSE IF trim(line) = self.post_sentinel
        THEN FlushThen(pushed,
                 Invoke("pre", processor.pre_handler,
                        pushed.block_content, fail),
                 "PostBlock")
        ELSE AppendLine(self, line)

\* process_line, the PreBlock arm with the post-sentinel tested first.
PreBlock_arm_PostTestedFirst(self, line, processor, fail) ==
    IF trim(line) = self.post_sentinel
    THEN FlushThen(self,
             Invoke("pre", processor.pre_handler, self.block_content, fail),
             "PostBlock")
    ELSE IF trim(line) = self.pre_sentinel
    THEN FlushThen(self,
             Invoke("pre", processor.pre_handler, self.block_content, fail),
             "CentralBlock")
    ELSE AppendLine(self, line)

\* FileParser::process_line, `ParserState::PreBlock => { .. }`
PreBlock_arm(self, line, processor, fail) ==
    IF trim(line) = self.pre_sentinel
    THEN FlushThen(self,
             Invoke("pre", processor.pre_handler, self.block_content, fail),
             "CentralBlock")
    ELSE IF trim(line) = self.post_sentinel
    THEN FlushThen(self,
             Invoke("pre", processor.pre_handler, self.block_content, fail),
             "PostBlock")
    ELSE AppendLine(self, line)

\* process_line, the CentralBlock arm without `self.state = PostBlock`.
CentralBlock_arm_StaysCentral(self, line, processor, fail) ==
    IF trim(line) = self.post_sentinel
    THEN FlushThen(self,
             InvokeOpt("central", processor.central_handler,
                       self.block_content, fail),
             "CentralBlock")
    ELSE AppendLine(self, line)

\* process_line, the CentralBlock arm skipping a pre-sentinel line instead of
\* keeping it as content.
CentralBlock_arm_SkipsPre(self, line, processor, fail) ==
    IF trim(line) = self.post_sentinel
    THEN FlushThen(self,
             InvokeOpt("central", processor.central_handler,
                       self.block_content, fail),
             "PostBlock")
    ELSE IF trim(line) = self.pre_sentinel
    THEN [self |-> self, ret |-> "Ok", out |-> <<>>, calls |-> <<>>]
    ELSE AppendLine(self, line)

\* process_line, the CentralBlock arm with `self.block_content.clear()` inside
\* the `if let Some(..)`.
CentralBlock_arm_ClearsInsideIfLet(self, line, processor, fail) ==
    IF trim(line) = self.post_sentinel
    THEN IF processor.central_handler.kind = "None"
         THEN [self  |-> [self EXCEPT !.state = "PostBlock"],
               ret   |-> "Ok",
               out   |-> <<>>,
               calls |-> <<>>]
         ELSE FlushThen(self,
                  Invoke("central", processor.central_handler,
                         self.block_content, fail),
                  "PostBlock")
    ELSE AppendLine(self, line)

\* FileParser::process_line, `ParserState::CentralBlock => { .. }`
CentralBlock_arm(self, line, processor, fail) ==
    IF trim(line) = self.post_sentinel
    THEN FlushThen(self,
             InvokeOpt("central", processor.central_handler,
                       self.block_content, fail),
             "PostBlock")
    ELSE AppendLine(self, line)

\* process_line, the PostBlock arm starting a new section at a pre-sentinel.
PostBlock_arm_Restarts(self, line, processor, fail) ==
    IF trim(line) = self.pre_sentinel
    THEN FlushThen(self,
             InvokeOpt("post", processor.post_handler,
                       self.block_content, fail),
             "CentralBlock")
    ELSE AppendLine(self, line)

\* FileParser::process_line, `ParserState::PostBlock => { .. }`
PostBlock_arm(self, line, processor, fail) == AppendLine(self, line)

\* process_line, the Finished arm buffering the line like the PostBlock arm.
Finished_arm_Appends(self, line, processor, fail) == AppendLine(self, line)

\* FileParser::process_line, `ParserState::Finished => { }`
Finished_arm(self, line, processor, fail) ==
    [self |-> self, ret |-> "Ok", out |-> <<>>, calls |-> <<>>]

\* FileParser::process_line
process_line(self, line, processor, fail) ==
    CASE self.state = "PreBlock" -> PreBlock_arm(self, line, processor, fail)
      [] self.state = "CentralBlock" ->
            CentralBlock_arm(self, line, processor, fail)
      [] self.state = "PostBlock" ->
            PostBlock_arm(self, line, processor, fail)
      [] self.state = "Finished" ->
            Finished_arm(self, line, processor, fail)

\* finish's match with the Finished arm delivering the buffer to the
\* post-handler once more.
finish_call_RedeliversWhenFinished(self, processor, fail) ==
    CASE self.state = "PreBlock" ->
            Invoke("pre", processor.pre_handler, self.block_content, fail)
      [] self.state = "CentralBlock" ->
            InvokeOpt("central", processor.central_handler,
                      self.block_content, fail)
      [] OTHER ->
            InvokeOpt("post", processor.post_handler,
                      self.block_content, fail)

\* The handler call finish makes in each state.
finish_call(self, processor, fail) ==
    CASE self.state = "PreBlock" ->
            Invoke("pre", processor.pre_handler, self.block_content, fail)
      [] self.state = "CentralBlock" ->
            InvokeOpt("central", processor.central_handler,
                      self.block_content, fail)
      [] self.state = "PostBlock" ->
            InvokeOpt("post", processor.post_handler,
                      self.block_content, fail)
      [] OTHER -> [ret |-> "Ok", out |-> <<>>, calls |-> <<>>]

\* finish with `self.state = Finished` only where a block was delivered.
finish_FinishedOnlyAfterCall(self, processor, fail) ==
    LET r == finish_call(self, processor, fail)
    IN  [self  |-> IF r.ret = "Err" \/ r.calls = <<>>
                   THEN self
                   ELSE [self EXCEPT !.state = "Finished"],
         ret   |-> r.ret,
         out   |-> r.out,
         calls |-> r.calls]

\* FileParser::finish: the `?` returns before `self.state = Finished`.
finish(self, processor, fail) ==
    LET r == finish_call(self, processor, fail)
    IN  [self  |-> IF r.ret = "Err"
                   THEN self
                   ELSE [self EXCEPT !.state = "Finished"],
         ret   |-> r.ret,
         out   |-> r.out,
         calls |-> r.calls]

\* ------------------------------------------------------------------ state

VARIABLES
    input,        \* the lines of the file process_file reads
    pos,          \* how many lines the `for` loop has taken from the reader
    consumed,     \* the lines handed to process_line so far, in call order
    parser,       \* the FileParser
    processor,    \* the FileProcessor
    pc,           \* process_file: "loop", or what it returned: "Ok", "Err"
    calls,        \* every handler invocation so far, in order
    stdout,       \* what has been printed
    finish_calls, \* how many times finish has been called
    returned      \* what the last call of process_line, finish or handle
                  \* returned: "Ok", "Err", or "none" before the first call

vars ==
    <<input, pos, consumed, parser, processor, pc, calls, stdout,
      finish_calls, returned>>

RECURSIVE SeqsUpTo(_, _)
SeqsUpTo(S, n) ==
    IF n = 0
    THEN { <<>> }
    ELSE LET shorter == SeqsUpTo(S, n - 1)
         IN  shorter \cup { Append(s, x) : s \in shorter, x \in S }

\* The handler records of one call, stamped with the number of lines taken
\* from the input when they were made and with the operation that made them.
Stamp(cs, at, during) ==
    [i \in 1..Len(cs) |->
        [slot    |-> cs[i].slot,
         content |-> cs[i].content,
         ret     |-> cs[i].ret,
         at      |-> at,
         during  |-> during]]

\* ------------------------------------------------- process_file (Spec)

\* The calls of process_file the model makes: every processor with distinct
\* sentinels, and the production processor with equal ones.
Configs ==
    { c \in SentinelPairs \X Processors :
        c[1][1] # c[1][2] \/ c[2] = FileProcessor_new }

Init ==
    /\ input \in SeqsUpTo(Lines, MaxLines)
    /\ pos = 0
    /\ consumed = <<>>
    /\ \E c \in Configs :
          /\ parser = FileParser_new(c[1][1], c[1][2])
          /\ processor = c[2]
    /\ pc = "loop"
    /\ calls = <<>>
    /\ stdout = <<>>
    /\ finish_calls = 0
    /\ returned = "none"

\* The loop with `parser.finish(self)?` inside its body, after process_line.
LoopStep_FinishesEachLine ==
    /\ pc = "loop"
    /\ pos < Len(input)
    /\ \E fail \in BOOLEAN :
          LET line == input[pos + 1]
              r    == process_line(parser, line, processor, fail)
              f    == finish(r.self, processor, fail)
          IN  /\ pos' = pos + 1
              /\ consumed' = Append(consumed, line)
              /\ parser' = f.self
              /\ calls' = calls \o Stamp(r.calls, pos + 1, "process_line")
                     \o Stamp(f.calls, pos + 1, "finish")
              /\ stdout' = stdout \o r.out \o f.out
              /\ pc' = IF r.ret = "Err" \/ f.ret = "Err" THEN "Err" ELSE "loop"
              /\ returned' = f.ret
    /\ finish_calls' = finish_calls + 1
    /\ UNCHANGED <<input, processor>>

\* The loop without the `?`: it goes on after a failed process_line.
LoopStep_IgnoresErr ==
    /\ pc = "loop"
    /\ pos < Len(input)
    /\ \E fail \in BOOLEAN :
          LET line == input[pos + 1]
              r    == process_line(parser, line, processor, fail)
          IN  /\ pos' = pos + 1
              /\ consumed' = Append(consumed, line)
              /\ parser' = r.self
              /\ calls' = calls \o Stamp(r.calls, pos + 1, "process_line")
              /\ stdout' = stdout \o r.out
              /\ pc' = "loop"
              /\ returned' = r.ret
    /\ UNCHANGED <<input, processor, finish_calls>>

\* `for line in reader.lines() { parser.process_line(&line, self)?; }`
LoopStep ==
    /\ pc = "loop"
    /\ pos < Len(input)
    /\ \E fail \in BOOLEAN :
          LET line == input[pos + 1]
              r    == process_line(parser, line, processor, fail)
          IN  /\ pos' = pos + 1
              /\ consumed' = Append(consumed, line)
              /\ parser' = r.self
              /\ calls' = calls \o Stamp(r.calls, pos + 1, "process_line")
              /\ stdout' = stdout \o r.out
              /\ pc' = IF r.ret = "Err" THEN "Err" ELSE "loop"
              /\ returned' = r.ret
    /\ UNCHANGED <<input, processor, finish_calls>>

\* `parser.finish(self)?; Ok(())`, once the reader is exhausted.
FinishStep ==
    /\ pc = "loop"
    /\ pos = Len(input)
    /\ \E fail \in BOOLEAN :
          LET r == finish(parser, processor, fail)
          IN  /\ parser' = r.self
              /\ calls' = calls \o Stamp(r.calls, pos, "finish")
              /\ stdout' = stdout \o r.out
              /\ pc' = r.ret
              /\ returned' = r.ret
    /\ finish_calls' = finish_calls + 1
    /\ UNCHANGED <<input, pos, consumed, processor>>

Next == LoopStep \/ FinishStep

Spec == Init /\ [][Next]_vars

\* process_file is straight-line synchronous code: while it has not returned
\* it takes its next step.
InitFair ==
    /\ input \in SeqsUpTo(Lines, MaxFairLines)
    /\ pos = 0
    /\ consumed = <<>>
    /\ \E c \in Configs :
          /\ parser = FileParser_new(c[1][1], c[1][2])
          /\ processor = c[2]
    /\ pc = "loop"
    /\ calls = <<>>
    /\ stdout = <<>>
    /\ finish_calls = 0
    /\ returned = "none"

SpecFair == InitFair /\ [][Next]_vars /\ WF_vars(Next)

\* ------------------------------------------- the parser alone (SpecParser)
\* A caller that holds a FileParser and calls process_line and finish in any
\* order, whatever the previous call returned.

InitParser ==
    /\ input = <<>>
    /\ pos = 0
    /\ consumed = <<>>
    /\ \E s \in SentinelPairs : parser = FileParser_new(s[1], s[2])
    /\ processor \in Processors
    /\ pc = "loop"
    /\ calls = <<>>
    /\ stdout = <<>>
    /\ finish_calls = 0
    /\ returned = "none"

CallProcessLine ==
    /\ Len(consumed) < MaxCalls
    /\ \E line \in Lines, fail \in BOOLEAN :
          LET r == process_line(parser, line, processor, fail)
          IN  /\ consumed' = Append(consumed, line)
              /\ parser' = r.self
              /\ calls' = calls
                     \o Stamp(r.calls, Len(consumed) + 1, "process_line")
              /\ stdout' = stdout \o r.out
              /\ returned' = r.ret
    /\ UNCHANGED <<input, pos, processor, pc, finish_calls>>

CallFinish ==
    /\ finish_calls < MaxFinish
    /\ \E fail \in BOOLEAN :
          LET r == finish(parser, processor, fail)
          IN  /\ parser' = r.self
              /\ calls' = calls \o Stamp(r.calls, Len(consumed), "finish")
              /\ stdout' = stdout \o r.out
              /\ returned' = r.ret
    /\ finish_calls' = finish_calls + 1
    /\ UNCHANGED <<input, pos, consumed, processor, pc>>

NextParser == CallProcessLine \/ CallFinish

SpecParser == InitParser /\ [][NextParser]_vars

\* ------------------------------------- PrintHandler alone (SpecPrint)
\* PrintHandler::handle applied to labels and contents drawn from small sets.

Labels == { PRE_BLOCK, CENTRAL_BLOCK, POST_BLOCK }

Contents ==
    { <<>>, <<" ">>, <<"a">>, <<" ", "a", " ">>, <<"a", NL, "a">>, <<NL>> }

InitPrint ==
    /\ input = <<>>
    /\ pos = 0
    /\ consumed = <<>>
    /\ parser = FileParser_new(P, Q)
    /\ processor = FileProcessor_new
    /\ pc = "loop"
    /\ calls = <<>>
    /\ stdout = <<>>
    /\ finish_calls = 0
    /\ returned = "none"

PrintCall ==
    /\ Len(calls) < MaxPrints
    /\ \E label \in Labels, content \in Contents, fail \in BOOLEAN :
          LET r == handle(PrintHandler(label), content, fail)
          IN  /\ calls' = Append(calls,
                     [slot |-> label, content |-> content, ret |-> r.ret,
                      at |-> 0, during |-> "handle"])
              /\ stdout' = stdout \o r.out
              /\ returned' = r.ret
    /\ UNCHANGED <<input, pos, consumed, parser, processor, pc, finish_calls>>

NextPrint == PrintCall

SpecPrint == InitPrint /\ [][NextPrint]_vars

\* ----------------------------------------------------------------- claims

\* The lines joined by a single NL: no leading and no trailing separator.
RECURSIVE Join(_)
Join(ls) ==
    IF ls = <<>>
    THEN <<>>
    ELSE IF Len(ls) = 1
    THEN ls[1]
    ELSE Join(SubSeq(ls, 1, Len(ls) - 1)) \o <<NL>> \o ls[Len(ls)]

IsPreLine(l) == trim(l) = parser.pre_sentinel
IsPostLine(l) == trim(l) = parser.post_sentinel

PreIdx == { i \in 1..Len(input) : IsPreLine(input[i]) }
PostIdx == { i \in 1..Len(input) : IsPostLine(input[i]) }

Slots == [i \in 1..Len(calls) |-> calls[i].slot]

AllHandlersPresent ==
    /\ processor.central_handler.kind # "None"
    /\ processor.post_handler.kind # "None"

\* C1: when no line of the input trims to a sentinel, a complete run makes
\* exactly one handler invocation, during finish, to the pre-handler, with
\* all input lines joined by NL.
C1_NoSentinelSingleFlush ==
    (pc = "Ok" /\ PreIdx = {} /\ PostIdx = {})
        => /\ Len(calls) = 1
           /\ calls[1].slot = "pre"
           /\ calls[1].during = "finish"
           /\ calls[1].content = Join(input)

\* C2: with the pre-sentinel exactly once, the post-sentinel exactly once and
\* after it, and all three handlers present, a complete run invokes the pre-,
\* central- and post-handler once each, in that order, with the lines before,
\* between and after the sentinels.
C2_ThreeBlocks ==
    \A i \in PreIdx, j \in PostIdx :
        (/\ pc = "Ok"
         /\ PreIdx = {i}
         /\ PostIdx = {j}
         /\ i < j
         /\ AllHandlersPresent)
            => /\ Slots = <<"pre", "central", "post">>
               /\ calls[1].content = Join(SubSeq(input, 1, i - 1))
               /\ calls[2].content = Join(SubSeq(input, i + 1, j - 1))
               /\ calls[3].content = Join(SubSeq(input, j + 1, Len(input)))

\* The first post-sentinel line is at k, with no pre-sentinel line at or
\* before it.
PostFirstAt(k) ==
    /\ k \in PostIdx
    /\ \A j \in PostIdx : j >= k
    /\ \A j \in PreIdx : j > k

C3_Body(k) ==
    /\ \A i \in 1..Len(calls) : calls[i].slot # "central"
    /\ (pos >= k /\ pc # "Err") => parser.state \in {"PostBlock", "Finished"}
    /\ pc = "Ok"
          => /\ Slots = <<"pre", "post">>
             /\ calls[1].during = "process_line"
             /\ calls[1].at = k
             /\ calls[2].during = "finish"

\* C3 as stated: when a post-sentinel line comes before any pre-sentinel
\* line, a complete run flushes exactly twice, to the pre-handler when the
\* post-sentinel is read (PreBlock moves directly to PostBlock) and to the
\* post-handler on finish, and the central-handler is never invoked.
C3_PostFirstTwoFlushes ==
    \A k \in PostIdx : PostFirstAt(k) => C3_Body(k)

\* C3, amended: the same, for a processor that has a post-handler.
C3_PostFirstTwoFlushesWithPostHandler ==
    \A k \in PostIdx :
        (PostFirstAt(k) /\ processor.post_handler.kind # "None")
            => C3_Body(k)

C3_Witness ==
    /\ pc = "Ok"
    /\ \E k \in PostIdx : PostFirstAt(k) /\ k < Len(input) /\ PreIdx # {}
    /\ Slots = <<"pre", "post">>
    /\ calls[2].content # <<>>

Last(q) == q[Len(q)]

\* The handler records the step from this state to the next one appends.
NewCalls == SubSeq(calls', Len(calls) + 1, Len(calls'))

\* C4: in process_file, once a handler invocation has failed, process_file
\* has returned the failure, no further line has been taken from the input,
\* finish has not been called after it, and no handler has been invoked
\* after it.
C4_FailureStopsTheRun ==
    \A i \in 1..Len(calls) :
        calls[i].ret = "Err"
            => /\ i = Len(calls)
               /\ pc = "Err"
               /\ pos = calls[i].at
               /\ Len(consumed) = calls[i].at
               /\ finish_calls = (IF calls[i].during = "finish" THEN 1 ELSE 0)

C4_Witness ==
    /\ pc = "Err"
    /\ pos < Len(input)
    /\ Len(calls) = 2
    /\ Last(calls).ret = "Err"
    /\ Last(calls).during = "process_line"
    /\ finish_calls = 0

\* C5: a process_line call whose handler invocation fails leaves the parser's
\* state and buffer exactly as they were before the call.
C5_FailedLineLeavesParser ==
    [][(/\ NewCalls # <<>>
        /\ Last(calls').ret = "Err"
        /\ Last(calls').during = "process_line")
           => /\ parser'.state = parser.state
              /\ parser'.block_content = parser.block_content]_vars

C5_Witness ==
    /\ calls # <<>>
    /\ Last(calls).ret = "Err"
    /\ Last(calls).during = "process_line"
    /\ Last(calls).slot = "central"
    /\ parser.state = "CentralBlock"
    /\ parser.block_content # <<>>
    /\ parser.block_content = Last(calls).content

\* The handler finish calls in each state, if the processor has it.
FinishSlot(st) ==
    CASE st = "PreBlock" -> <<"pre">>
      [] st = "CentralBlock" ->
            IF processor.central_handler.kind = "None"
            THEN <<>>
            ELSE <<"central">>
      [] st = "PostBlock" ->
            IF processor.post_handler.kind = "None" THEN <<>> ELSE <<"post">>
      [] OTHER -> <<>>

FinishFlushesCurrentBlock ==
    /\ [i \in 1..Len(NewCalls) |-> NewCalls[i].slot] = FinishSlot(parser.state)
    /\ \A i \in 1..Len(NewCalls) :
          /\ NewCalls[i].content = parser.block_content
          /\ NewCalls[i].during = "finish"

\* C6 as stated: finish flushes the buffer to the handler of the current
\* state and the parser state is Finished after every call to finish.
C6_FinishAlwaysFinished ==
    [][finish_calls' = finish_calls + 1
          => /\ FinishFlushesCurrentBlock
             /\ parser'.state = "Finished"]_vars

\* C6, amended: finish flushes the buffer to the handler of the current
\* state; when that call succeeds or there is none to make, the parser state
\* is Finished afterwards; when it fails, the parser is left as it was.
C6_FinishFinishedUnlessErr ==
    [][finish_calls' = finish_calls + 1
          => /\ FinishFlushesCurrentBlock
             /\ (NewCalls = <<>> \/ Last(calls').ret = "Ok")
                   => parser'.state = "Finished"
             /\ (NewCalls # <<>> /\ Last(calls').ret = "Err")
                   => parser' = parser]_vars

C6_Witness ==
    /\ finish_calls = 2
    /\ parser.state = "Finished"
    /\ Len(calls) = 3
    /\ calls[2].ret = "Err"
    /\ calls[2].during = "finish"
    /\ calls[3].ret = "Ok"
    /\ calls[3].during = "finish"
    /\ calls[3].slot = "central"

Rank(st) ==
    CASE st = "PreBlock" -> 0
      [] st = "CentralBlock" -> 1
      [] st = "PostBlock" -> 2
      [] st = "Finished" -> 3

\* C7: over any sequence of process_line and finish calls the parser state
\* only moves forward in the order PreBlock, CentralBlock, PostBlock,
\* Finished, and Finished is never left.
C7_StateOnlyMovesForward ==
    [][Rank(parser'.state) >= Rank(parser.state)]_vars

C7_Witness ==
    /\ parser.state = "Finished"
    /\ finish_calls = 2
    /\ Len(consumed) = 3
    /\ [i \in 1..Len(calls) |-> calls[i].during]
          = <<"process_line", "process_line", "finish">>

SlotRank(sl) ==
    CASE sl = "pre" -> 0
      [] sl = "central" -> 1
      [] sl = "post" -> 2

\* C8: in process_file the handlers are invoked in block order, none twice
\* and none after a later block's; the first invocation is the pre-handler's,
\* and a complete run has invoked the pre-handler.
C8_HandlersInBlockOrder ==
    /\ \A i, j \in 1..Len(calls) :
          i < j => SlotRank(calls[i].slot) < SlotRank(calls[j].slot)
    /\ calls # <<>> => calls[1].slot = "pre"
    /\ pc = "Ok" => calls # <<>>

C8_Witness ==
    /\ pc = "Ok"
    /\ Slots = <<"pre", "central", "post">>
    /\ \A i \in 1..3 : calls[i].content # <<>>

\* What one call of PrintHandler::handle is to print: nothing for content of
\* length zero, else the opening banner, the raw content and the closing
\* banner, each ended by a newline.
PrintedBy(label, content) ==
    IF Len(content) = 0
    THEN <<>>
    ELSE <<"=", "=", "=", " ", "S", "t", "a", "r", "t", ":", " ">> \o label
             \o <<" ", "=", "=", "=", NL>>
             \o content \o <<NL>>
             \o <<"=", "=", "=", " ", " ", "E", "n", "d", ":", " ">> \o label
             \o <<" ", " ", "=", "=", "=", NL>>

RECURSIVE PrintedByAll(_)
PrintedByAll(cs) ==
    IF cs = <<>>
    THEN <<>>
    ELSE PrintedByAll(SubSeq(cs, 1, Len(cs) - 1))
             \o PrintedBy(Last(cs).slot, Last(cs).content)

\* C9: PrintHandler::handle always returns success; it prints nothing for
\* content of length zero and otherwise the opening banner, the raw content
\* and the closing banner, in this order; whitespace-only content is printed.
C9_PrintHandlerOutput ==
    /\ \A i \in 1..Len(calls) : calls[i].ret = "Ok"
    /\ stdout = PrintedByAll(calls)

C9_Witness ==
    /\ Len(calls) = 2
    /\ calls[1].content = <<>>
    /\ calls[2].content = <<" ">>
    /\ Len(stdout) = Len(PRE_BLOCK) + Len(PRE_BLOCK) + 34

\* The buffer after the lines ls have been appended to an empty one.
RECURSIVE Buffered(_)
Buffered(ls) ==
    IF ls = <<>>
    THEN <<>>
    ELSE push_line(Buffered(SubSeq(ls, 1, Len(ls) - 1)), Last(ls))

Min(S) == CHOOSE x \in S : \A y \in S : x <= y

\* The line that ends the pre block: the first sentinel line of either kind
\* (one past the input when there is none).
PreEnd == Min(PreIdx \cup PostIdx \cup {Len(input) + 1})

\* The line that ends the central block, when the pre block ended at a
\* pre-sentinel: the first post-sentinel line after it.
CentralEnd == Min({ j \in PostIdx : j > PreEnd } \cup {Len(input) + 1})

HasCentral == PreEnd <= Len(input) /\ IsPreLine(input[PreEnd])

BlockStart(sl) ==
    CASE sl = "pre" -> 1
      [] sl = "central" -> PreEnd + 1
      [] sl = "post" -> IF HasCentral THEN CentralEnd + 1 ELSE PreEnd + 1

BlockEnd(sl) ==
    CASE sl = "pre" -> PreEnd
      [] sl = "central" -> CentralEnd
      [] sl = "post" -> Len(input) + 1

\* C10: lines are consumed strictly in input order, and a block's handler is
\* invoked when exactly the lines up to the block's terminating sentinel (or
\* the whole input, on finish) have been read, with a buffer that holds the
\* block's lines and no later one.
C10_FlushBeforeNextBlock ==
    /\ consumed = SubSeq(input, 1, pos)
    /\ \A i \in 1..Len(calls) :
          LET c == calls[i]
              e == BlockEnd(c.slot)
          IN  /\ c.slot = "central" => HasCentral
              /\ c.at = (IF e <= Len(input) THEN e ELSE Len(input))
              /\ c.during
                    = (IF e <= Len(input) THEN "process_line" ELSE "finish")
              /\ c.content = Buffered(SubSeq(input, BlockStart(c.slot), e - 1))

C10_Witness ==
    /\ Len(input) = 5
    /\ pos = 4
    /\ pc = "loop"
    /\ Slots = <<"pre", "central">>
    /\ calls[1].at = 2
    /\ calls[2].at = 4
    /\ calls[2].content = <<"a">>
    /\ parser.block_content = <<>>

\* C11: the content handed to a block's handler is the block's lines, in
\* order, joined by a single NL, empty lines included.
C11_ContentIsJoinOfBlock ==
    \A i \in 1..Len(calls) :
        calls[i].content
            = Join(SubSeq(input, BlockStart(calls[i].slot),
                          BlockEnd(calls[i].slot) - 1))

\* A step that is one call of process_line, and the line it was given.
IsLineCall == Len(consumed') = Len(consumed) + 1
GivenLine == Last(consumed')

LineIsOrdinaryContent ==
    /\ parser'.state = parser.state
    /\ parser'.block_content = push_line(parser.block_content, GivenLine)
    /\ calls' = calls

\* C12 as stated: in CentralBlock a line matching the pre-sentinel, and in
\* PostBlock a line matching either sentinel, is appended to the buffer as
\* ordinary content, with no handler invocation and no state change.
C12_LaterSentinelsAreContent ==
    [][(/\ IsLineCall
        /\ \/ parser.state = "CentralBlock" /\ IsPreLine(GivenLine)
           \/ /\ parser.state = "PostBlock"
              /\ (IsPreLine(GivenLine) \/ IsPostLine(GivenLine)))
           => LineIsOrdinaryContent]_vars

\* C12, amended: the same, for a CentralBlock line that matches the
\* pre-sentinel and not the post-sentinel.
C12_LaterSentinelsAreContentUnlessPost ==
    [][(/\ IsLineCall
        /\ \/ /\ parser.state = "CentralBlock"
              /\ IsPreLine(GivenLine)
              /\ ~IsPostLine(GivenLine)
           \/ /\ parser.state = "PostBlock"
              /\ (IsPreLine(GivenLine) \/ IsPostLine(GivenLine)))
           => LineIsOrdinaryContent]_vars

C12_Witness ==
    /\ pc = "Ok"
    /\ input = <<P, P, Q, P, Q>>
    /\ parser.pre_sentinel # parser.post_sentinel
    /\ Slots = <<"pre", "central", "post">>
    /\ calls[2].content = <<"P">>
    /\ calls[3].content = <<"P", NL, "Q">>

\* The slot of the handler a state's block goes to.
SlotOf(st) ==
    CASE st = "PreBlock" -> "pre"
      [] st = "CentralBlock" -> "central"
      [] st = "PostBlock" -> "post"

StateChangedByLine == IsLineCall /\ parser'.state # parser.state

HandedToHandler ==
    /\ Len(NewCalls) = 1
    /\ NewCalls[1].slot = SlotOf(parser.state)
    /\ NewCalls[1].content = parser.block_content
    /\ NewCalls[1].ret = "Ok"

\* C13 as stated: whenever a process_line call changes the parser state, the
\* buffer of the old state has been handed to a handler and the buffer is
\* empty after the call.
C13_StateChangeFlushes ==
    [][StateChangedByLine
          => /\ HandedToHandler
             /\ parser'.block_content = <<>>]_vars

\* C13, amended: whenever a process_line call changes the parser state, the
\* buffer of the old state has been handed to the old state's handler, or
\* dropped when the processor has no such handler, and the buffer is empty
\* after the call.
C13_StateChangeFlushesOrDrops ==
    [][StateChangedByLine
          => /\ IF FinishSlot(parser.state) = <<>>
                THEN NewCalls = <<>>
                ELSE HandedToHandler
             /\ parser'.block_content = <<>>]_vars

C13_Witness ==
    /\ Len(consumed) = 3
    /\ parser.state = "PostBlock"
    /\ parser.block_content = <<>>
    /\ Slots = <<"pre", "central">>
    /\ calls[1].content = <<>>
    /\ calls[2].content = <<"a">>

\* The post-sentinel that ends the central block has been read.
CentralEnded == HasCentral /\ CentralEnd <= Len(input) /\ pos >= CentralEnd

\* C14: without a central-handler, reading the post-sentinel in CentralBlock
\* still clears the buffer and moves to PostBlock, and the central lines reach
\* no handler, the post-handler included; without a post-handler, finish in
\* PostBlock invokes no handler and still ends in Finished.
C14_AbsentHandlersDiscard ==
    /\ processor.central_handler.kind = "None"
          => /\ \A i \in 1..Len(calls) : calls[i].slot # "central"
             /\ CentralEnded
                   => /\ parser.state \in {"PostBlock", "Finished"}
                      /\ parser.block_content
                            = Buffered(SubSeq(input, CentralEnd + 1, pos))
                      /\ \A i \in 1..Len(calls) :
                            calls[i].slot = "post"
                                => calls[i].content = parser.block_content
    /\ processor.post_handler.kind = "None"
          => /\ \A i \in 1..Len(calls) : calls[i].slot # "post"
             /\ finish_calls = 1
                   => parser.state = "Finished" /\ returned = "Ok"

C14_Witness ==
    /\ processor.central_handler.kind = "None"
    /\ input = <<P, <<"a">>, Q, <<"a">>>>
    /\ pc = "Ok"
    /\ parser.state = "Finished"
    /\ Slots = <<"pre", "post">>
    /\ calls[2].content = <<"a">>

\* C15: in state Finished, process_line does nothing, whatever the line: the
\* state stays Finished, the buffer is unchanged, no handler is invoked, and
\* the call returns success.
C15_LineAfterFinishIsNoOp ==
    [][(IsLineCall /\ parser.state = "Finished")
          => /\ parser' = parser
             /\ calls' = calls
             /\ stdout' = stdout
             /\ returned' = "Ok"]_vars

C15_Witness ==
    /\ parser.state = "Finished"
    /\ consumed = <<<<"a">>, P, Q>>
    /\ parser.block_content = <<"a">>
    /\ Len(calls) = 1
    /\ calls[1].at = 1
    /\ calls[1].during = "finish"
    /\ returned = "Ok"

IsFinishCall == finish_calls' = finish_calls + 1

\* C16: finish in state Finished does nothing: no handler is invoked, the
\* state stays Finished, and the call returns success.
C16_SecondFinishIsNoOp ==
    [][(IsFinishCall /\ parser.state = "Finished")
          => /\ parser' = parser
             /\ calls' = calls
             /\ stdout' = stdout
             /\ returned' = "Ok"]_vars

C16_Witness ==
    /\ finish_calls = 2
    /\ parser.state = "Finished"
    /\ Len(consumed) = 3
    /\ Slots = <<"pre", "post">>
    /\ calls[2].content # <<>>
    /\ calls[2].during = "finish"
    /\ calls[2].ret = "Ok"

\* The line between its first and its last character that is not whitespace.
Stripped(l) ==
    LET keep == { i \in 1..Len(l) : l[i] \notin Whitespace }
    IN  IF keep = {}
        THEN <<>>
        ELSE SubSeq(l, Min(keep),
                    CHOOSE i \in keep : \A j \in keep : j <= i)

\* The sentinels process_line looks for in each state.
SentinelsOf(st) ==
    CASE st = "PreBlock" -> {parser.pre_sentinel, parser.post_sentinel}
      [] st = "CentralBlock" -> {parser.post_sentinel}
      [] OTHER -> {}

\* The step flushed: it invoked a handler or left the state.
TreatedAsSentinel == NewCalls # <<>> \/ parser'.state # parser.state

\* C17: process_line treats a line as a sentinel exactly when the line without
\* its leading and trailing whitespace equals the sentinel; any other line,
\* one that only contains the sentinel included, is appended untrimmed.
C17_SentinelIsTrimEquality ==
    [][(IsLineCall /\ parser.state \in {"PreBlock", "CentralBlock"})
          => IF Stripped(GivenLine) \in SentinelsOf(parser.state)
             THEN TreatedAsSentinel
                     /\ parser'.block_content \in {<<>>, parser.block_content}
             ELSE LineIsOrdinaryContent]_vars

C17_Witness ==
    /\ consumed = <<<<"P", "a">>, <<" ", "P", " ">>, <<" ", "P", " ">>>>
    /\ parser.pre_sentinel # parser.post_sentinel
    /\ parser.state = "CentralBlock"
    /\ parser.block_content = <<" ", "P", " ">>
    /\ Len(calls) = 1
    /\ calls[1].content = <<"P", "a">>
    /\ calls[1].at = 2

\* C19: with equal sentinels, a matching line read in PreBlock flushes to the
\* pre-handler and moves to CentralBlock, never to PostBlock, and a matching
\* line read in CentralBlock flushes to the central-handler and moves to
\* PostBlock; in PreBlock a line matching the pre-sentinel never leads to
\* PostBlock, whatever the post-sentinel is.
C19_PreSentinelTakesPrecedence ==
    [][(IsLineCall /\ IsPreLine(GivenLine))
          => /\ parser.state = "PreBlock"
                   => /\ HandedToHandler \/ returned' = "Err"
                      /\ Len(NewCalls) = 1 /\ NewCalls[1].slot = "pre"
                      /\ returned' = "Ok" => parser'.state = "CentralBlock"
                      /\ parser'.state # "PostBlock"
             /\ (/\ parser.state = "CentralBlock"
                 /\ parser.pre_sentinel = parser.post_sentinel)
                   => /\ [i \in 1..Len(NewCalls) |-> NewCalls[i].slot]
                            = FinishSlot("CentralBlock")
                      /\ \A i \in 1..Len(NewCalls) :
                            NewCalls[i].content = parser.block_content
                      /\ returned' = "Ok" => parser'.state = "PostBlock"]_vars

C19_Witness ==
    /\ parser.pre_sentinel = parser.post_sentinel
    /\ consumed = <<P, <<"a">>, <<" ", "P", " ">>>>
    /\ parser.state = "PostBlock"
    /\ Slots = <<"pre", "central">>
    /\ calls[2].content = <<"a">>
    /\ calls[2].at = 3

NoHandlerFailed == \A i \in 1..Len(calls) : calls[i].ret = "Ok"

\* C18: process_file terminates on every finite input; the lines consumed are
\* always the first pos lines of the input, each once; and a run in which no
\* handler failed ends with Ok, after finish has been executed once over the
\* whole input, in state Finished.
C18_ProcessFileTerminates ==
    /\ <>(pc \in {"Ok", "Err"})
    /\ [](consumed = SubSeq(input, 1, pos))
    /\ []((pc # "loop" /\ NoHandlerFailed)
             => /\ pc = "Ok"
                /\ consumed = input
                /\ finish_calls = 1
                /\ parser.state = "Finished")

C18_Witness ==
    /\ pc = "Ok"
    /\ Len(input) = 3
    /\ consumed = input
    /\ finish_calls = 1
    /\ parser.state = "Finished"
    /\ processor.post_handler.kind = "None"
    /\ Slots = <<"pre">>

\* C20: in process_file, process_line and finish are only called while the
\* parser state is not Finished, and finish is called at most once.
C20_NeverDrivenAfterFinish ==
    [][(IsLineCall \/ IsFinishCall)
          => /\ parser.state # "Finished"
             /\ IsFinishCall => finish_calls = 0]_vars

C20_Witness ==
    /\ pc = "Ok"
    /\ finish_calls = 1
    /\ Len(consumed) = 5
    /\ parser.state = "Finished"
    /\ Slots = <<"pre", "central", "post">>
    /\ returned = "Ok"

====
